---- MODULE Spec2Model ----
(***************************************************************************)
(* State-machine model of TranslucentTB/win32.cpp: the executable-path     *)
(* cache (GetExeLocation), the process hardener (HardenProcess), the       *)
(* clipboard transfer (CopyToClipboard), the shell launchers (EditFile,    *)
(* OpenLink, OpenFolder) with their detached recovery threads, and the     *)
(* probes (IsDirectory, FileExists, GetFileVersion).                       *)
(*                                                                         *)
(* Wide strings are sequences of characters; a character is a one-letter   *)
(* string, NUL the terminator.  Every OS call is an input: its outcome is   *)
(* drawn with \E.                                                          *)
(***************************************************************************)
EXTENDS Integers, Sequences, FiniteSets, TLC

VARIABLES
    m_ExeLocation,  \* win32::m_ExeLocation, the process-wide cached path
    writing,        \* threads inside the assignment to m_ExeLocation (line 53)
    exe,            \* exe[t]: thread t's frame of GetExeLocation
    exeLog,         \* history: exeLog[t] = one record per finished call of t
    exeWrites,      \* history: number of assignments to m_ExeLocation
    exeQueries,     \* history: number of QueryFullProcessImageName calls
    raceSeen,       \* history: some thread read the cache while another wrote it
    callsLeft,      \* callsLeft[t]: GetExeLocation calls the caller t still makes
    hp,             \* the frame of HardenProcess
    osCalls,        \* history: the mitigation-policy calls made, in order
    cb,             \* cb[t]: thread t's frame of CopyToClipboard
    blk,            \* blk[t]: the global memory block of t's current call
    clip,           \* the system clipboard: who holds it open, what it contains
    copiesLeft,     \* CopyToClipboard calls the foreground caller still makes
    sh,             \* the foreground thread's frame of EditFile/OpenLink/OpenFolder
    tasks,          \* tasks[i]: the detached recovery thread i
    nTasks,         \* number of recovery threads created so far
    lastError,      \* lastError[t]: what GetLastError() returns on thread t
    launchLog,      \* history: one record per shell launch
    launchesLeft,   \* shell launches the foreground caller still makes
    probe,          \* the probed path: its state on disk, the results of the probes
    ver,            \* the GetFileVersion call: its OS inputs and its result
    reports         \* the logging sink: every ErrorHandle / LastErrorHandle call

exeVars == <<m_ExeLocation, writing, exe, exeLog, exeWrites, exeQueries, raceSeen, callsLeft>>
hpVars  == <<hp, osCalls>>
cbVars  == <<cb, blk, clip, copiesLeft>>
shVars  == <<sh, tasks, nTasks, lastError, launchLog, launchesLeft>>
pbVars  == <<probe, ver>>
vars    == <<m_ExeLocation, writing, exe, exeLog, exeWrites, exeQueries, raceSeen,
             callsLeft, hp, osCalls, cb, blk, clip, copiesLeft, sh, tasks, nTasks,
             lastError, launchLog, launchesLeft, probe, ver, reports>>

----------------------------------------------------------------------------
(* Bounds of the model *)

\* number of detached recovery threads that can exist (threads 1..MaxTasks)
MaxTasks == 2
\* CopyToClipboard calls the foreground caller makes in a row
MaxCopies == 2
\* GetExeLocation calls a caller makes in a row
MaxExeCalls == 4

Main    == 0
Threads == 0 .. MaxTasks

Empty == << >>
NUL   == "NUL"
NoOne == -1

\* paths QueryFullProcessImageName can report: one on a fixed drive, one on a share
ExePaths == { <<"C", ":">>, <<"N", ":", "x">> }

\* values GetLastError() holds after QueryFullProcessImageName failed
\* (ERROR_ACCESS_DENIED, ERROR_INSUFFICIENT_BUFFER)
QueryErrors == {5, 122}

S_OK == 0

\* winerror.h, used at lines 41, 82, 98, 116: a Win32 code as a signed 32-bit HRESULT
HRESULT_FROM_WIN32(x) ==
    IF x <= 0 THEN x ELSE (x % 65536) + 7 * 65536 - 2147483647 - 1

SUCCEEDED(hr) == hr >= 0

----------------------------------------------------------------------------
(* The logging sink *)

Report(t, level, msg) == [by |-> t, level |-> level, msg |-> msg]

\* ErrorHandle(hr, level, message): hands one report to the sink and returns
\* to the statement after it, at every severity
ErrorHandle(log, t, hr, level, msg) == Append(log, Report(t, level, msg))

\* LastErrorHandle(level, message): the same, with the thread's last error
LastErrorHandle(log, t, level, msg) == Append(log, Report(t, level, msg))

----------------------------------------------------------------------------
(* win32::GetProcessFileName and win32::GetExeLocation *)

\* lines 28-43: <<name, S_OK>> on success, <<empty, HRESULT>> on failure
GetProcessFileName(ok, name, err) ==
    IF ok THEN <<name, S_OK>> ELSE <<Empty, HRESULT_FROM_WIN32(err)>>

IdleFrame == [pc |-> "idle", loc |-> Empty, hr |-> S_OK, ret |-> Empty,
              queried |-> "no", caller |-> "none"]

\* what a read of m_ExeLocation can yield to thread t: its value, or, while
\* another thread is inside the assignment, the old value, the value being
\* written or a torn string (the race is undefined behaviour)
Torn == <<"?">>
ReadCache(t) ==
    IF writing \ {t} = {}
    THEN {m_ExeLocation}
    ELSE {m_ExeLocation, Torn} \cup {exe[u].loc : u \in writing \ {t}}

\* a call begins: the frame is entered at line 47
ExeEnter(t, who) == [IdleFrame EXCEPT !.pc = "check", !.caller = who]

\* ExeCheck as it would be without the test of line 47: every call queries
ExeCheck_NoMemo(t) ==
    /\ exe[t].pc = "check"
    /\ exe' = [exe EXCEPT ![t].pc = "query"]
    /\ raceSeen' = (raceSeen \/ writing \ {t} # {})
    /\ UNCHANGED <<m_ExeLocation, writing, exeLog, exeWrites, exeQueries, callsLeft,
                   hpVars, cbVars, shVars, pbVars, reports>>

\* line 47: if (m_ExeLocation.empty())
ExeCheck(t) ==
    /\ exe[t].pc = "check"
    /\ \E v \in ReadCache(t) :
          exe' = [exe EXCEPT ![t].pc = IF v = Empty THEN "query" ELSE "ret"]
    /\ raceSeen' = (raceSeen \/ writing \ {t} # {})
    /\ UNCHANGED <<m_ExeLocation, writing, exeLog, exeWrites, exeQueries, callsLeft,
                   hpVars, cbVars, shVars, pbVars, reports>>

\* lines 49-51: the OS query and the branch on SUCCEEDED(hr)
ExeQuery(t) ==
    /\ exe[t].pc = "query"
    /\ \E ok \in BOOLEAN, name \in ExePaths, err \in QueryErrors :
          LET r == GetProcessFileName(ok, name, err) IN
          exe' = [exe EXCEPT ![t].loc = r[1], ![t].hr = r[2],
                             ![t].queried = IF ok THEN "ok" ELSE "failed",
                             ![t].pc = IF SUCCEEDED(r[2]) THEN "store" ELSE "fatal"]
    /\ exeQueries' = exeQueries + 1
    /\ UNCHANGED <<m_ExeLocation, writing, exeLog, exeWrites, raceSeen, callsLeft,
                   hpVars, cbVars, shVars, pbVars, reports>>

\* line 53: m_ExeLocation = std::move(loc), the assignment begins
ExeStoreBegin(t) ==
    /\ exe[t].pc = "store"
    /\ writing' = writing \cup {t}
    /\ raceSeen' = (raceSeen \/ writing \ {t} # {})
    /\ exe' = [exe EXCEPT ![t].pc = "storing"]
    /\ UNCHANGED <<m_ExeLocation, exeLog, exeWrites, exeQueries, callsLeft,
                   hpVars, cbVars, shVars, pbVars, reports>>

\* ExeStoreEnd as it would be if the assignment of line 53 were missing
ExeStoreEnd_Dropped(t) ==
    /\ exe[t].pc = "storing"
    /\ writing' = writing \ {t}
    /\ exe' = [exe EXCEPT ![t].pc = "ret"]
    /\ UNCHANGED <<m_ExeLocation, exeLog, exeWrites, exeQueries, raceSeen, callsLeft,
                   hpVars, cbVars, shVars, pbVars, reports>>

\* line 53: the assignment completes
ExeStoreEnd(t) ==
    /\ exe[t].pc = "storing"
    /\ m_ExeLocation' = exe[t].loc
    /\ writing' = writing \ {t}
    /\ exeWrites' = exeWrites + 1
    /\ exe' = [exe EXCEPT ![t].pc = "ret"]
    /\ UNCHANGED <<exeLog, exeQueries, raceSeen, callsLeft, hpVars, cbVars, shVars, pbVars, reports>>

\* line 57: ErrorHandle(hr, Error::Level::Fatal, ...)
ExeFatal(t) ==
    /\ exe[t].pc = "fatal"
    /\ reports' = ErrorHandle(reports, t, exe[t].hr, "Fatal",
                              "Failed to determine executable location!")
    /\ exe' = [exe EXCEPT ![t].pc = "ret"]
    /\ UNCHANGED <<m_ExeLocation, writing, exeLog, exeWrites, exeQueries, raceSeen,
                   callsLeft, hpVars, cbVars, shVars, pbVars>>

\* line 61: return m_ExeLocation; the caller reads the string it is handed
ExeRet(t) ==
    /\ exe[t].pc = "ret"
    /\ \E v \in ReadCache(t) :
          /\ exe' = [exe EXCEPT ![t].pc = "done", ![t].ret = v]
          /\ exeLog' = [exeLog EXCEPT ![t] =
                           Append(@, [queried |-> exe[t].queried, ret |-> v])]
    /\ raceSeen' = (raceSeen \/ writing \ {t} # {})
    /\ UNCHANGED <<m_ExeLocation, writing, exeWrites, exeQueries, callsLeft,
                   hpVars, cbVars, shVars, pbVars, reports>>

\* a caller other than HardenProcess calls GetExeLocation()
ExeCall(t) ==
    /\ exe[t].pc = "idle"
    /\ callsLeft[t] > 0
    /\ callsLeft' = [callsLeft EXCEPT ![t] = @ - 1]
    /\ exe' = [exe EXCEPT ![t] = ExeEnter(t, "caller")]
    /\ UNCHANGED <<m_ExeLocation, writing, exeLog, exeWrites, exeQueries, raceSeen,
                   hpVars, cbVars, shVars, pbVars, reports>>

\* ... and takes the result
ExeDone(t) ==
    /\ exe[t].pc = "done"
    /\ exe[t].caller = "caller"
    /\ exe' = [exe EXCEPT ![t].pc = "idle"]
    /\ UNCHANGED <<m_ExeLocation, writing, exeLog, exeWrites, exeQueries, raceSeen,
                   callsLeft, hpVars, cbVars, shVars, pbVars, reports>>

GetExeLocation(t) ==
    \/ ExeCheck(t)
    \/ ExeQuery(t)
    \/ ExeStoreBegin(t)
    \/ ExeStoreEnd(t)
    \/ ExeFatal(t)
    \/ ExeRet(t)

----------------------------------------------------------------------------
(* win32::CopyToClipboard *)

\* texts the foreground caller copies
Texts == { << >>, <<"a">>, <<"a", " ", "b">> }

\* what a cell of freshly allocated global memory can hold: zero or residue
FreshCells == {NUL, "?"}

\* what the clipboard holds before the program touches it
OldData == <<"o", NUL>>

\* data: what the AutoFree object `data` designates: nothing ("null"), the
\* block's handle, or, inside the scope of the AutoUnlock, the locked pointer
CbIdle == [pc |-> "idle", text |-> Empty, opened |-> FALSE, data |-> "null",
           steps |-> << >>, result |-> "none", base |-> 0, caller |-> "none"]

\* state: "none", "allocated", "clipboard" (owned by the clipboard) or "freed"
NoBlock == [state |-> "none", locks |-> 0, mem |-> << >>, frees |-> 0]

CbEnter(text, who) ==
    [CbIdle EXCEPT !.pc = "open", !.text = text, !.base = Len(reports), !.caller = who]

Step(name, ok) == [step |-> name, ok |-> ok]

\* a failed step: LastErrorHandle(Error::Level::Error, msg); return false;
CbFail(t, name, msg) ==
    /\ cb' = [cb EXCEPT ![t].steps = Append(@, Step(name, FALSE)),
                        ![t].result = FALSE, ![t].pc = "ret"]
    /\ reports' = LastErrorHandle(reports, t, "Error", msg)

\* CbOpen as it would be if the clipboard could be opened while it is open
CbOpen_Shared(t) ==
    /\ cb[t].pc = "open"
    /\ \E ok \in BOOLEAN :
          IF ok
          THEN /\ clip' = [clip EXCEPT !.holder = t]
               /\ cb' = [cb EXCEPT ![t].steps = Append(@, Step("open", TRUE)),
                                   ![t].opened = TRUE, ![t].pc = "empty"]
               /\ UNCHANGED reports
          ELSE /\ CbFail(t, "open", "Failed to open clipboard.")
               /\ UNCHANGED clip
    /\ UNCHANGED <<blk, copiesLeft, exeVars, hpVars, shVars, pbVars>>

\* lines 128-133: ClipboardContext opens the clipboard, which the OS grants to
\* one holder at a time
CbOpen(t) ==
    /\ cb[t].pc = "open"
    /\ \E ok \in BOOLEAN :
          IF ok /\ clip.holder = NoOne
          THEN /\ clip' = [clip EXCEPT !.holder = t]
               /\ cb' = [cb EXCEPT ![t].steps = Append(@, Step("open", TRUE)),
                                   ![t].opened = TRUE, ![t].pc = "empty"]
               /\ UNCHANGED reports
          ELSE /\ CbFail(t, "open", "Failed to open clipboard.")
               /\ UNCHANGED clip
    /\ UNCHANGED <<blk, copiesLeft, exeVars, hpVars, shVars, pbVars>>

\* CbEmpty as it would be if the failure were reported without returning
CbEmpty_Continue(t) ==
    /\ cb[t].pc = "empty"
    /\ \E ok \in BOOLEAN :
          /\ cb' = [cb EXCEPT ![t].steps = Append(@, Step("empty", ok)),
                              ![t].pc = "alloc"]
          /\ clip' = IF ok THEN [clip EXCEPT !.data = << >>] ELSE clip
          /\ reports' = IF ok THEN reports
                        ELSE LastErrorHandle(reports, t, "Error",
                                             "Failed to empty clipboard.")
    /\ UNCHANGED <<blk, copiesLeft, exeVars, hpVars, shVars, pbVars>>

\* lines 135-139: EmptyClipboard
CbEmpty(t) ==
    /\ cb[t].pc = "empty"
    /\ \E ok \in BOOLEAN :
          IF ok
          THEN /\ clip' = [clip EXCEPT !.data = << >>]
               /\ cb' = [cb EXCEPT ![t].steps = Append(@, Step("empty", TRUE)),
                                   ![t].pc = "alloc"]
               /\ UNCHANGED reports
          ELSE /\ CbFail(t, "empty", "Failed to empty clipboard.")
               /\ UNCHANGED clip
    /\ UNCHANGED <<blk, copiesLeft, exeVars, hpVars, shVars, pbVars>>

\* AutoFree::GlobalHandle<wchar_t[]>::Alloc(count): movable global memory of
\* count characters.  Nothing is known to initialize it: the block holds
\* zeros or residue (one fill per block: the code writes the cells or leaves
\* them, it never reads them)
Alloc(count, fill) ==
    [state |-> "allocated", locks |-> 0, mem |-> [i \in 1 .. count |-> fill],
     frees |-> 0]

\* lines 141-146: allocate text.length() + 1 characters
CbAlloc(t) ==
    /\ cb[t].pc = "alloc"
    /\ \E ok \in BOOLEAN, fill \in FreshCells :
          IF ok
          THEN /\ blk' = [blk EXCEPT ![t] = Alloc(Len(cb[t].text) + 1, fill)]
               /\ cb' = [cb EXCEPT ![t].steps = Append(@, Step("alloc", TRUE)),
                                   ![t].data = "handle", ![t].pc = "lock"]
               /\ UNCHANGED reports
          ELSE /\ CbFail(t, "alloc", "Failed to allocate memory for the clipboard.")
               /\ UNCHANGED blk
    /\ UNCHANGED <<clip, copiesLeft, exeVars, hpVars, shVars, pbVars>>

\* AutoUnlock's constructor: GlobalLock on the handle; `data` then designates
\* the locked pointer, null when the lock failed
AutoUnlock(b, ok) == IF ok THEN [b EXCEPT !.locks = @ + 1] ELSE b

\* AutoUnlock's destructor: GlobalUnlock; `data` designates the handle again
ScopeExit(b) == [b EXCEPT !.locks = IF @ > 0 THEN @ - 1 ELSE 0]

\* CbLock as it would be if a failed lock left `data` null for good
CbLock_Forget(t) ==
    /\ cb[t].pc = "lock"
    /\ \E ok \in BOOLEAN :
          IF ok
          THEN /\ blk' = [blk EXCEPT ![t] = AutoUnlock(@, TRUE)]
               /\ cb' = [cb EXCEPT ![t].steps = Append(@, Step("lock", TRUE)),
                                   ![t].data = "pointer", ![t].pc = "copy"]
               /\ UNCHANGED reports
          ELSE /\ blk' = [blk EXCEPT ![t] = ScopeExit(AutoUnlock(@, FALSE))]
               /\ cb' = [cb EXCEPT ![t].steps = Append(@, Step("lock", FALSE)),
                                   ![t].data = "null",
                                   ![t].result = FALSE, ![t].pc = "ret"]
               /\ reports' = LastErrorHandle(reports, t, "Error",
                                             "Failed to lock memory for the clipboard.")
    /\ UNCHANGED <<clip, copiesLeft, exeVars, hpVars, shVars, pbVars>>

\* lines 148-154: the scope is entered and the lock taken; when it failed the
\* failure is reported and `return false` leaves the scope
CbLock(t) ==
    /\ cb[t].pc = "lock"
    /\ \E ok \in BOOLEAN :
          IF ok
          THEN /\ blk' = [blk EXCEPT ![t] = AutoUnlock(@, TRUE)]
               /\ cb' = [cb EXCEPT ![t].steps = Append(@, Step("lock", TRUE)),
                                   ![t].data = "pointer", ![t].pc = "copy"]
               /\ UNCHANGED reports
          ELSE /\ blk' = [blk EXCEPT ![t] = ScopeExit(AutoUnlock(@, FALSE))]
               /\ CbFail(t, "lock", "Failed to lock memory for the clipboard.")
    /\ UNCHANGED <<clip, copiesLeft, exeVars, hpVars, shVars, pbVars>>

\* text.copy(dest, text.length()): exactly text.length() characters are
\* written, the rest of the destination is left as it was
Copy(text, dest) ==
    [i \in 1 .. Len(dest) |-> IF i <= Len(text) THEN text[i] ELSE dest[i]]

\* CbCopy as it would be with the lock declared in the function's scope
CbCopy_NoScope(t) ==
    /\ cb[t].pc = "copy"
    /\ blk' = [blk EXCEPT ![t].mem = Copy(cb[t].text, @)]
    /\ cb' = [cb EXCEPT ![t].steps = Append(@, Step("copy", TRUE)),
                        ![t].data = "handle", ![t].pc = "set"]
    /\ UNCHANGED <<clip, copiesLeft, exeVars, hpVars, shVars, pbVars, reports>>

\* lines 155-156: the text is copied in and the scope of the lock ends
CbCopy(t) ==
    /\ cb[t].pc = "copy"
    /\ blk' = [blk EXCEPT ![t] = ScopeExit([@ EXCEPT !.mem = Copy(cb[t].text, @)])]
    /\ cb' = [cb EXCEPT ![t].steps = Append(@, Step("copy", TRUE)),
                        ![t].data = "handle", ![t].pc = "set"]
    /\ UNCHANGED <<clip, copiesLeft, exeVars, hpVars, shVars, pbVars, reports>>

\* AutoFree's detach(): hands out the handle and gives up its ownership
Detach(data) == "null"

\* AutoFree's destructor: frees the block if `data` still holds its handle
FreeIfHeld(b, data) ==
    IF data = "handle" THEN [b EXCEPT !.state = "freed", !.frees = @ + 1] ELSE b

\* ClipboardContext's destructor: closes the clipboard if it had opened it
CloseIfOpened(c, opened) == IF opened THEN [c EXCEPT !.holder = NoOne] ELSE c

\* lines 158-164: data.detach() is evaluated, then SetClipboardData is called
\* with the handle: on success the clipboard owns the block, on failure
\* nothing does
CbSet(t) ==
    /\ cb[t].pc = "set"
    /\ \E ok \in BOOLEAN :
          IF ok
          THEN /\ clip' = [clip EXCEPT !.data = blk[t].mem]
               /\ blk' = [blk EXCEPT ![t].state = "clipboard"]
               /\ cb' = [cb EXCEPT ![t].steps = Append(@, Step("set", TRUE)),
                                   ![t].data = Detach(@), ![t].result = TRUE,
                                   ![t].pc = "ret"]
               /\ UNCHANGED reports
          ELSE /\ cb' = [cb EXCEPT ![t].steps = Append(@, Step("set", FALSE)),
                                   ![t].data = Detach(@), ![t].result = FALSE,
                                   ![t].pc = "ret"]
               /\ reports' = LastErrorHandle(reports, t, "Error",
                                             "Failed to copy data to clipboard.")
               /\ UNCHANGED <<clip, blk>>
    /\ UNCHANGED <<copiesLeft, exeVars, hpVars, shVars, pbVars>>

\* the return statements (lines 132, 138, 145, 153, 161, 164): `data` frees the
\* block it still holds, the ClipboardContext closes the clipboard it opened
CbRet(t) ==
    /\ cb[t].pc = "ret"
    /\ blk' = [blk EXCEPT ![t] = FreeIfHeld(@, cb[t].data)]
    /\ clip' = CloseIfOpened(clip, cb[t].opened)
    /\ cb' = [cb EXCEPT ![t].data = "null", ![t].opened = FALSE, ![t].pc = "done"]
    /\ UNCHANGED <<copiesLeft, exeVars, hpVars, shVars, pbVars, reports>>

\* the foreground caller calls CopyToClipboard(text)
CbCall(t) ==
    /\ cb[t].pc = "idle"
    /\ copiesLeft > 0
    /\ copiesLeft' = copiesLeft - 1
    /\ \E text \in Texts : cb' = [cb EXCEPT ![t] = CbEnter(text, "caller")]
    /\ blk' = [blk EXCEPT ![t] = NoBlock]
    /\ UNCHANGED <<clip, exeVars, hpVars, shVars, pbVars, reports>>

\* ... and takes the result
CbDone(t) ==
    /\ cb[t].pc = "done"
    /\ cb[t].caller = "caller"
    /\ cb' = [cb EXCEPT ![t].pc = "idle"]
    /\ UNCHANGED <<blk, clip, copiesLeft, exeVars, hpVars, shVars, pbVars, reports>>

CopyToClipboard(t) ==
    \/ CbOpen(t)
    \/ CbEmpty(t)
    \/ CbAlloc(t)
    \/ CbLock(t)
    \/ CbCopy(t)
    \/ CbSet(t)
    \/ CbRet(t)

----------------------------------------------------------------------------
(* win32::EditFile, win32::OpenLink, win32::OpenFolder *)

\* targets the foreground caller launches
Files   == { <<"f">> }
Links   == { <<"h", "t", "t", "p", ":", "/", "/", "e", "x", "a", "m", "p", "l", "e",
               ".", "c", "o", "m">>,
             <<"h", "t", "t", "p", "s", ":", "/", "/", "e", "x", "a", "m", "p", "l",
               "e", ".", "c", "o", "m">>,
             <<"f", "t", "p", "s", ":", "/", "/", "e">> }
Folders == { <<"d">> }

\* values GetLastError() holds after ShellExecuteEx failed
\* (ERROR_FILE_NOT_FOUND, ERROR_ACCESS_DENIED)
ShellErrors == {2, 5}

\* what MessageBox can return: Yes, No, or 0 when the box is torn down unanswered
Answers == {"IDYES", "IDNO", "dismissed"}

ShIdle == [pc |-> "idle", kind |-> "none", target |-> Empty]

\* a recovery thread: target and err are the lambda's captures, shown is the
\* content of boxbuffer, copies the texts it has passed to CopyToClipboard,
\* launch the index in launchLog of the launch that created it
NoTask == [state |-> "none", kind |-> "none", target |-> Empty, err |-> 0,
           shown |-> [target |-> Empty, err |-> 0], answer |-> "none",
           copies |-> << >>, launch |-> 0]

\* ShellExecuteEx(&info) with lpClass = class and lpFile = target; when it
\* fails, std::thread([target, err = GetLastError()] ...).detach()
Launch(kind, class, target) ==
    /\ sh.pc = "idle"
    /\ launchesLeft > 0
    /\ launchesLeft' = launchesLeft - 1
    /\ \E ok \in BOOLEAN, code \in ShellErrors :
          IF ok
          THEN /\ launchLog' = Append(launchLog,
                       [kind |-> kind, class |-> class, target |-> target,
                        ok |-> TRUE, err |-> 0])
               /\ UNCHANGED <<tasks, nTasks, lastError>>
          ELSE LET le == [lastError EXCEPT ![Main] = code] IN
               /\ launchLog' = Append(launchLog,
                       [kind |-> kind, class |-> class, target |-> target,
                        ok |-> FALSE, err |-> code])
               /\ lastError' = le
               /\ nTasks' = nTasks + 1
               /\ tasks' = [tasks EXCEPT ![nTasks + 1] =
                       [NoTask EXCEPT !.state = "spawned", !.kind = kind,
                                      !.target = target, !.err = le[Main],
                                      !.launch = Len(launchLog) + 1]]
    /\ sh' = [pc |-> "launched", kind |-> kind, target |-> target]
    /\ UNCHANGED <<exeVars, pbVars, hpVars, cbVars, reports>>

\* lines 167-197
EditFile == \E file \in Files : Launch("file", "txtfile", file)

\* OpenLink as it would be if it looked at the fourth character
OpenLink_FourthChar ==
    \E link \in Links :
        Launch("link", IF link[4] = "s" THEN "https" ELSE "http", link)

\* lines 200-230; link[4] is the fifth character
OpenLink ==
    \E link \in Links :
        Launch("link", IF link[5] = "s" THEN "https" ELSE "http", link)

\* lines 401-431
OpenFolder == \E folder \in Folders : Launch("folder", "folder", folder)

\* ShReturn as it would be if the thread were joined instead of detached
ShReturn_Join ==
    /\ sh.pc = "launched"
    /\ \A i \in 1 .. nTasks :
          tasks[i].launch = Len(launchLog) => tasks[i].state = "done"
    /\ sh' = ShIdle
    /\ UNCHANGED <<tasks, nTasks, lastError, launchLog, launchesLeft,
                   exeVars, pbVars, hpVars, cbVars, reports>>

\* lines 198, 231, 432: the launcher returns to its caller
ShReturn ==
    /\ sh.pc = "launched"
    /\ sh' = ShIdle
    /\ UNCHANGED <<tasks, nTasks, lastError, launchLog, launchesLeft,
                   exeVars, pbVars, hpVars, cbVars, reports>>

\* TaskStart as it would be if the thread called GetLastError() itself
TaskStart_LateError(i) ==
    /\ tasks[i].state = "spawned"
    /\ tasks' = [tasks EXCEPT ![i].state = "prompt",
                              ![i].shown = [target |-> tasks[i].target,
                                            err |-> lastError[i]]]
    /\ UNCHANGED <<sh, nTasks, lastError, launchLog, launchesLeft,
                   exeVars, pbVars, hpVars, cbVars, reports>>

\* lines 187-192 (220-225, 421-426): the thread builds boxbuffer from its
\* captures and calls MessageBox, which blocks it
TaskStart(i) ==
    /\ tasks[i].state = "spawned"
    /\ tasks' = [tasks EXCEPT ![i].state = "prompt",
                              ![i].shown = [target |-> tasks[i].target,
                                            err |-> tasks[i].err]]
    /\ UNCHANGED <<sh, nTasks, lastError, launchLog, launchesLeft,
                   exeVars, pbVars, hpVars, cbVars, reports>>

\* lines 192-195 (225-228, 426-429): MessageBox returns; on IDYES the thread
\* calls CopyToClipboard with its captured target, otherwise it ends
TaskAnswer(i) ==
    /\ tasks[i].state = "prompt"
    /\ \E ans \in Answers :
          IF ans = "IDYES"
          THEN /\ tasks' = [tasks EXCEPT ![i].state = "copying", ![i].answer = ans,
                                         ![i].copies = Append(@, tasks[i].target)]
               /\ cb' = [cb EXCEPT ![i] = CbEnter(tasks[i].target, "task")]
               /\ blk' = [blk EXCEPT ![i] = NoBlock]
          ELSE /\ tasks' = [tasks EXCEPT ![i].state = "done", ![i].answer = ans]
               /\ UNCHANGED <<cb, blk>>
    /\ UNCHANGED <<sh, nTasks, lastError, launchLog, launchesLeft, clip, copiesLeft,
                   exeVars, pbVars, hpVars, reports>>

\* lines 194-196: CopyToClipboard has returned and the thread ends
TaskEnd(i) ==
    /\ tasks[i].state = "copying"
    /\ cb[i].pc = "done"
    /\ tasks' = [tasks EXCEPT ![i].state = "done"]
    /\ UNCHANGED <<sh, nTasks, lastError, launchLog, launchesLeft,
                   exeVars, pbVars, hpVars, cbVars, reports>>

RecoveryThread(i) ==
    \/ TaskStart(i)
    \/ TaskAnswer(i)
    \/ CopyToClipboard(i)
    \/ TaskEnd(i)

----------------------------------------------------------------------------
(* win32::HardenProcess *)

\* PROCESS_MITIGATION_ASLR_POLICY as GetProcessMitigationPolicy can report it
AslrPolicies ==
    [EnableBottomUpRandomization : BOOLEAN, EnableForceRelocateImages : BOOLEAN,
     EnableHighEntropy : BOOLEAN, DisallowStrippedImages : BOOLEAN]

\* GetDriveType results
DriveTypes == {"DRIVE_FIXED", "DRIVE_REMOTE"}

GetCall(policy, ok) == [call |-> "Get", policy |-> policy, ok |-> ok]
SetCall(policy, value, ok) ==
    [call |-> "Set", policy |-> policy, value |-> value, ok |-> ok]

\* HP_Aslr as it would be if the policy installed were built from scratch
\* instead of from the one queried
HP_Aslr_FromScratch ==
    /\ hp.pc = "aslr"
    /\ \E qok \in BOOLEAN, cur \in AslrPolicies, sok \in BOOLEAN :
          IF qok
          THEN LET aslr_policy == [EnableBottomUpRandomization |-> FALSE,
                                   EnableForceRelocateImages |-> TRUE,
                                   EnableHighEntropy |-> FALSE,
                                   DisallowStrippedImages |-> TRUE] IN
               /\ osCalls' = osCalls \o <<GetCall("ASLR", TRUE),
                                          SetCall("ASLR", aslr_policy, sok)>>
               /\ hp' = [hp EXCEPT !.pc = "code", !.queried = cur]
               /\ reports' = IF sok THEN reports
                             ELSE LastErrorHandle(reports, Main, "Log",
                                                  "Couldn't disallow stripped images.")
          ELSE /\ osCalls' = Append(osCalls, GetCall("ASLR", FALSE))
               /\ hp' = [hp EXCEPT !.pc = "code"]
               /\ reports' = LastErrorHandle(reports, Main, "Log",
                                             "Couldn't get current ASLR policy.")
    /\ UNCHANGED <<exeVars, cbVars, shVars, pbVars>>

\* lines 235-248: query the ASLR policy, set two fields, install it
HP_Aslr ==
    /\ hp.pc = "aslr"
    /\ \E qok \in BOOLEAN, cur \in AslrPolicies, sok \in BOOLEAN :
          IF qok
          THEN LET aslr_policy == [cur EXCEPT !.EnableForceRelocateImages = TRUE,
                                              !.DisallowStrippedImages = TRUE] IN
               /\ osCalls' = osCalls \o <<GetCall("ASLR", TRUE),
                                          SetCall("ASLR", aslr_policy, sok)>>
               /\ hp' = [hp EXCEPT !.pc = "code", !.queried = cur]
               /\ reports' = IF sok THEN reports
                             ELSE LastErrorHandle(reports, Main, "Log",
                                                  "Couldn't disallow stripped images.")
          ELSE /\ osCalls' = Append(osCalls, GetCall("ASLR", FALSE))
               /\ hp' = [hp EXCEPT !.pc = "code"]
               /\ reports' = LastErrorHandle(reports, Main, "Log",
                                             "Couldn't get current ASLR policy.")
    /\ UNCHANGED <<exeVars, cbVars, shVars, pbVars>>

\* one install of a value-initialized policy: SetProcessMitigationPolicy, and
\* LastErrorHandle at Log severity when it fails; the next step follows either way
Install(at, policy, value, msg, next) ==
    /\ hp.pc = at
    /\ \E sok \in BOOLEAN :
          /\ osCalls' = Append(osCalls, SetCall(policy, value, sok))
          /\ reports' = IF sok THEN reports
                        ELSE LastErrorHandle(reports, Main, "Log", msg)
    /\ hp' = [hp EXCEPT !.pc = next]
    /\ UNCHANGED <<exeVars, cbVars, shVars, pbVars>>

\* lines 265-272
HP_DynamicCode ==
    Install("code", "DynamicCode",
            [ProhibitDynamicCode |-> TRUE, AllowThreadOptOut |-> FALSE,
             AllowRemoteDowngrade |-> FALSE],
            "Couldn't disable dynamic code generation.", "handle")

\* HP_StrictHandleCheck as it would be if a failed install were tried again
HP_StrictHandleCheck_Retry ==
    /\ hp.pc = "handle"
    /\ \E sok \in BOOLEAN, again \in BOOLEAN :
          LET value == [RaiseExceptionOnInvalidHandleReference |-> TRUE,
                        HandleExceptionsPermanentlyEnabled |-> TRUE] IN
          /\ osCalls' = IF sok
                         THEN Append(osCalls, SetCall("StrictHandleCheck", value, TRUE))
                         ELSE osCalls \o <<SetCall("StrictHandleCheck", value, FALSE),
                                           SetCall("StrictHandleCheck", value, again)>>
          /\ reports' = IF sok \/ again THEN reports
                        ELSE LastErrorHandle(reports, Main, "Log",
                                             "Couldn't enable strict handle checks.")
    /\ hp' = [hp EXCEPT !.pc = "extension"]
    /\ UNCHANGED <<exeVars, cbVars, shVars, pbVars>>

\* lines 281-287
HP_StrictHandleCheck ==
    Install("handle", "StrictHandleCheck",
            [RaiseExceptionOnInvalidHandleReference |-> TRUE,
             HandleExceptionsPermanentlyEnabled |-> TRUE],
            "Couldn't enable strict handle checks.", "extension")

\* lines 289-294
HP_ExtensionPoint ==
    Install("extension", "ExtensionPointDisable", [DisableExtensionPoints |-> TRUE],
            "Couldn't disable extension point DLLs.", "signature")

\* HP_Signature as it would be if a failed install ended the function
HP_Signature_Abort ==
    /\ hp.pc = "signature"
    /\ \E sok \in BOOLEAN :
          /\ osCalls' = Append(osCalls, SetCall("Signature", [MitigationOptIn |-> TRUE], sok))
          /\ reports' = IF sok THEN reports
                        ELSE LastErrorHandle(reports, Main, "Log",
                                 "Couldn't enable image signature enforcement.")
          /\ hp' = [hp EXCEPT !.pc = IF sok THEN "load" ELSE "done"]
    /\ UNCHANGED <<exeVars, cbVars, shVars, pbVars>>

\* lines 296-301
HP_Signature ==
    Install("signature", "Signature", [MitigationOptIn |-> TRUE],
            "Couldn't enable image signature enforcement.", "load")

\* lines 304-310: the load policy is prepared and GetExeLocation() is called
HP_GetExeLocation ==
    /\ hp.pc = "load"
    /\ exe[Main].pc = "idle"
    /\ exe' = [exe EXCEPT ![Main] = ExeEnter(Main, "HardenProcess")]
    /\ hp' = [hp EXCEPT !.pc = "volume"]
    /\ UNCHANGED <<m_ExeLocation, writing, exeLog, exeWrites, exeQueries, raceSeen,
                   callsLeft, osCalls, cbVars, shVars, pbVars, reports>>

\* HP_ImageLoad as it would be if a failed volume resolution failed the step
HP_ImageLoad_GiveUp ==
    /\ hp.pc = "volume"
    /\ exe[Main].pc = "done"
    /\ \E vok \in BOOLEAN, drive \in DriveTypes, sok \in BOOLEAN :
          LET load_policy ==
                  [NoLowMandatoryLabelImages |-> TRUE,
                   PreferSystem32Images |-> TRUE,
                   NoRemoteImages |-> drive # "DRIVE_REMOTE"]
              volume == [call |-> "GetVolumePathName", policy |-> "none", ok |-> vok,
                         path |-> exe[Main].ret,
                         drive |-> IF vok THEN drive ELSE "none"]
          IN
          IF vok
          THEN /\ osCalls' = osCalls \o <<volume, SetCall("ImageLoad", load_policy, sok)>>
               /\ reports' = IF sok THEN reports
                             ELSE LastErrorHandle(reports, Main, "Log",
                                                  "Couldn't set image load policy.")
          ELSE /\ osCalls' = Append(osCalls, volume)
               /\ reports' = LastErrorHandle(reports, Main, "Log",
                                             "Unable to get volume path name.")
    /\ exe' = [exe EXCEPT ![Main].pc = "idle"]
    /\ hp' = [hp EXCEPT !.pc = "return"]
    /\ UNCHANGED <<m_ExeLocation, writing, exeLog, exeWrites, exeQueries, raceSeen,
                   callsLeft, cbVars, shVars, pbVars>>

\* lines 310-322: GetVolumePathName on the path returned, GetDriveType, and the
\* install of the image load policy
HP_ImageLoad ==
    /\ hp.pc = "volume"
    /\ exe[Main].pc = "done"
    /\ \E vok \in BOOLEAN, drive \in DriveTypes, sok \in BOOLEAN :
          LET load_policy ==
                  [NoLowMandatoryLabelImages |-> TRUE,
                   PreferSystem32Images |-> TRUE,
                   NoRemoteImages |-> IF vok THEN drive # "DRIVE_REMOTE" ELSE FALSE]
              log1 == IF vok THEN reports
                      ELSE LastErrorHandle(reports, Main, "Log",
                                           "Unable to get volume path name.")
          IN
          /\ osCalls' = osCalls \o
                 <<[call |-> "GetVolumePathName", policy |-> "none", ok |-> vok,
                    path |-> exe[Main].ret,
                    drive |-> IF vok THEN drive ELSE "none"],
                   SetCall("ImageLoad", load_policy, sok)>>
          /\ reports' = IF sok THEN log1
                        ELSE LastErrorHandle(log1, Main, "Log",
                                             "Couldn't set image load policy.")
    /\ exe' = [exe EXCEPT ![Main].pc = "idle"]
    /\ hp' = [hp EXCEPT !.pc = "return"]
    /\ UNCHANGED <<m_ExeLocation, writing, exeLog, exeWrites, exeQueries, raceSeen,
                   callsLeft, cbVars, shVars, pbVars>>

\* line 323: HardenProcess returns to its caller
HP_Return ==
    /\ hp.pc = "return"
    /\ hp' = [hp EXCEPT !.pc = "done"]
    /\ UNCHANGED <<exeVars, osCalls, cbVars, shVars, pbVars, reports>>

HardenProcess ==
    \/ HP_Aslr
    \/ HP_DynamicCode
    \/ HP_StrictHandleCheck
    \/ HP_ExtensionPoint
    \/ HP_Signature
    \/ HP_GetExeLocation
    \/ HP_ImageLoad
    \/ HP_Return

----------------------------------------------------------------------------
(* win32::IsDirectory, win32::FileExists *)

\* winbase.h / winnt.h / winerror.h; a DWORD is written as its 32-bit
\* pattern read as a signed integer, so 0xFFFFFFFF is -1
INVALID_FILE_ATTRIBUTES  == -1
FILE_ATTRIBUTE_DIRECTORY == 16
ERROR_FILE_NOT_FOUND     == 2
ERROR_PATH_NOT_FOUND     == 3

\* attribute words GetFileAttributes can report: a directory (0x10), a
\* read-only directory (0x11), a directory reparse point (0x410), a file
\* with the archive bit (0x20), a normal file (0x80), a read-only hidden
\* file (0x03)
AttributeWords == {16, 17, 1040, 32, 128, 3}

\* values GetLastError() holds after GetFileAttributes failed: no error
\* recorded, file not found, path not found, access denied, sharing violation
ProbeErrors == {0, 2, 3, 5, 32}

\* the states of the probed path: the attribute query succeeds with an
\* attribute word, or fails with a last error
PathStates ==
    [ok : {TRUE}, attributes : AttributeWords, error : {0}]
    \cup [ok : {FALSE}, attributes : {INVALID_FILE_ATTRIBUTES}, error : ProbeErrors]

\* GetFileAttributes(path)
GetFileAttributes(f) == IF f.ok THEN f.attributes ELSE INVALID_FILE_ATTRIBUTES

\* a & bit, for a >= 0 and bit a power of two
BitAnd(a, bit) == IF (a \div bit) % 2 = 1 THEN bit ELSE 0

\* conversion of an integer to bool
ToBool(x) == x # 0

NoResult == [called |-> FALSE, ret |-> FALSE]
NoProbe  == [fs |-> [ok |-> FALSE, attributes |-> INVALID_FILE_ATTRIBUTES,
                     error |-> ERROR_FILE_NOT_FOUND],
             isDir |-> NoResult, exists |-> NoResult]

\* lines 89-106
IsDirectory ==
    /\ ~probe.isDir.called
    /\ LET attributes == GetFileAttributes(probe.fs) IN
       IF attributes = INVALID_FILE_ATTRIBUTES
       THEN LET error == probe.fs.error IN
            /\ reports' = IF error # ERROR_FILE_NOT_FOUND /\ error # ERROR_PATH_NOT_FOUND
                          THEN ErrorHandle(reports, Main, HRESULT_FROM_WIN32(error),
                                           "Debug", "Failed to check if directory exists.")
                          ELSE reports
            /\ probe' = [probe EXCEPT !.isDir = [called |-> TRUE, ret |-> FALSE]]
       ELSE /\ probe' = [probe EXCEPT !.isDir =
                            [called |-> TRUE,
                             ret |-> ToBool(BitAnd(attributes, FILE_ATTRIBUTE_DIRECTORY))]]
            /\ UNCHANGED reports
    /\ UNCHANGED <<ver, exeVars, hpVars, cbVars, shVars>>

\* FileExists as it would be if it returned true for everything that exists
FileExists_AnyKind ==
    /\ ~probe.exists.called
    /\ LET attributes == GetFileAttributes(probe.fs) IN
       IF attributes = INVALID_FILE_ATTRIBUTES
       THEN LET error == probe.fs.error IN
            /\ reports' = IF error # ERROR_FILE_NOT_FOUND /\ error # ERROR_PATH_NOT_FOUND
                          THEN ErrorHandle(reports, Main, HRESULT_FROM_WIN32(error),
                                           "Log", "Failed to check if file exists.")
                          ELSE reports
            /\ probe' = [probe EXCEPT !.exists = [called |-> TRUE, ret |-> FALSE]]
       ELSE /\ probe' = [probe EXCEPT !.exists = [called |-> TRUE, ret |-> TRUE]]
            /\ UNCHANGED reports
    /\ UNCHANGED <<ver, exeVars, hpVars, cbVars, shVars>>

\* FileExists as it would be if every failed query were reported
FileExists_ReportAll ==
    /\ ~probe.exists.called
    /\ LET attributes == GetFileAttributes(probe.fs) IN
       IF attributes = INVALID_FILE_ATTRIBUTES
       THEN /\ reports' = ErrorHandle(reports, Main, HRESULT_FROM_WIN32(probe.fs.error),
                                      "Log", "Failed to check if file exists.")
            /\ probe' = [probe EXCEPT !.exists = [called |-> TRUE, ret |-> FALSE]]
       ELSE /\ probe' = [probe EXCEPT !.exists =
                            [called |-> TRUE,
                             ret |-> ~ToBool(BitAnd(attributes, FILE_ATTRIBUTE_DIRECTORY))]]
            /\ UNCHANGED reports
    /\ UNCHANGED <<ver, exeVars, hpVars, cbVars, shVars>>

\* lines 108-124
FileExists ==
    /\ ~probe.exists.called
    /\ LET attributes == GetFileAttributes(probe.fs) IN
       IF attributes = INVALID_FILE_ATTRIBUTES
       THEN LET error == probe.fs.error IN
            /\ reports' = IF error # ERROR_FILE_NOT_FOUND /\ error # ERROR_PATH_NOT_FOUND
                          THEN ErrorHandle(reports, Main, HRESULT_FROM_WIN32(error),
                                           "Log", "Failed to check if file exists.")
                          ELSE reports
            /\ probe' = [probe EXCEPT !.exists = [called |-> TRUE, ret |-> FALSE]]
       ELSE /\ probe' = [probe EXCEPT !.exists =
                            [called |-> TRUE,
                             ret |-> ~ToBool(BitAnd(attributes, FILE_ATTRIBUTE_DIRECTORY))]]
            /\ UNCHANGED reports
    /\ UNCHANGED <<ver, exeVars, hpVars, cbVars, shVars>>

----------------------------------------------------------------------------
(* win32::GetFileVersion *)

\* what GetFileVersionInfoSize returns: 0 (failure) or the size of the block
VersionSizes == {0, 8}

\* what VerQueryValue hands back: the characters fileVersion points to, whose
\* number, terminator included, is `length`; no characters when the field has
\* no value
VersionValues == { << >>, <<NUL>>, <<"1", ".", "0", NUL>> }

\* values GetLastError() holds when a step has failed: nothing recorded (the
\* step did not set it), ERROR_FILE_NOT_FOUND, ERROR_RESOURCE_TYPE_NOT_FOUND
VersionErrors == {0, 2, 1813}

\* the OS's answers to one call: the block size, whether the block can be
\* read, whether the FileVersion field is found, its characters, and the
\* last error at the step that fails
VersionInputs ==
    [size : VersionSizes, infoOk : BOOLEAN, queryOk : BOOLEAN,
     fileVersion : VersionValues, err : VersionErrors]

\* the step at which the call fails, "none" when none does
FailingStep(in) ==
    IF in.size = 0 THEN "size"
    ELSE IF ~in.infoOk THEN "info"
    ELSE IF ~in.queryOk THEN "query"
    ELSE "none"

Result(value, hr) == [returned |-> TRUE, value |-> value, hr |-> hr]
NoReturn == [returned |-> FALSE, value |-> Empty, hr |-> S_OK]

\* lines 346-369: the results the call can have.  With length = 0 the string
\* of line 368 is built from length - 1 = 0xFFFFFFFF characters, which reads
\* past the block: the call ends without a result or returns residue
GetFileVersion(in) ==
    IF FailingStep(in) # "none"
    THEN { Result(Empty, HRESULT_FROM_WIN32(in.err)) }
    ELSE LET length == Len(in.fileVersion) IN
         IF length = 0
         THEN { NoReturn, Result(Torn, S_OK) }
         ELSE { Result(SubSeq(in.fileVersion, 1, length - 1), S_OK) }

NoVersion == [called |-> FALSE,
              in |-> [size |-> 0, infoOk |-> FALSE, queryOk |-> FALSE,
                      fileVersion |-> Empty, err |-> 0],
              result |-> NoReturn]

\* a caller calls GetFileVersion(file)
VersionProbe ==
    /\ ~ver.called
    /\ \E in \in VersionInputs : \E r \in GetFileVersion(in) :
          ver' = [called |-> TRUE, in |-> in, result |-> r]
    /\ UNCHANGED <<probe, exeVars, hpVars, cbVars, shVars, reports>>

----------------------------------------------------------------------------
(* Initial states and specifications *)

NoPolicy == [EnableBottomUpRandomization |-> FALSE, EnableForceRelocateImages |-> FALSE,
             EnableHighEntropy |-> FALSE, DisallowStrippedImages |-> FALSE]

\* the state after static initialization: line 26 constructs an empty cache
InitCommon ==
    /\ writing = {}
    /\ exe = [t \in Threads |-> IdleFrame]
    /\ exeLog = [t \in Threads |-> << >>]
    /\ exeWrites = 0
    /\ exeQueries = 0
    /\ raceSeen = FALSE
    /\ osCalls = << >>
    /\ reports = << >>
    /\ cb = [t \in Threads |-> CbIdle]
    /\ blk = [t \in Threads |-> NoBlock]
    /\ clip = [holder |-> NoOne, data |-> OldData]
    /\ sh = ShIdle
    /\ tasks = [i \in 1 .. MaxTasks |-> NoTask]
    /\ nTasks = 0
    /\ lastError = [t \in Threads |-> 0]
    /\ launchLog = << >>
    /\ ver = NoVersion

\* HardenProcess runs once at startup, on the foreground thread; the path may
\* or may not have been cached by an earlier GetExeLocation call
InitHarden ==
    /\ InitCommon
    /\ m_ExeLocation \in {Empty} \cup ExePaths
    /\ probe = NoProbe
    /\ callsLeft = [t \in Threads |-> 0]
    /\ copiesLeft = 0
    /\ launchesLeft = 0
    /\ hp = [pc |-> "aslr", queried |-> NoPolicy]

NextHarden == HardenProcess \/ GetExeLocation(Main)

SpecHarden == InitHarden /\ [][NextHarden]_vars

\* the foreground thread calls GetExeLocation() several times in a row,
\* starting from the empty cache of line 26
InitExeSeq ==
    /\ InitCommon
    /\ m_ExeLocation = Empty
    /\ probe = NoProbe
    /\ callsLeft = [t \in Threads |-> IF t = Main THEN MaxExeCalls ELSE 0]
    /\ copiesLeft = 0
    /\ launchesLeft = 0
    /\ hp = [pc |-> "off", queried |-> NoPolicy]

NextExe == \E t \in Threads : ExeCall(t) \/ GetExeLocation(t) \/ ExeDone(t)

SpecExeSeq == InitExeSeq /\ [][NextExe]_vars

\* two threads call GetExeLocation() once each while the cache is empty
InitExeConc ==
    /\ InitCommon
    /\ m_ExeLocation = Empty
    /\ probe = NoProbe
    /\ callsLeft = [t \in Threads |-> IF t <= 1 THEN 1 ELSE 0]
    /\ copiesLeft = 0
    /\ launchesLeft = 0
    /\ hp = [pc |-> "off", queried |-> NoPolicy]

SpecExeConc == InitExeConc /\ [][NextExe]_vars

\* the foreground thread calls CopyToClipboard several times in a row
InitClip ==
    /\ InitCommon
    /\ m_ExeLocation = Empty
    /\ probe = NoProbe
    /\ callsLeft = [t \in Threads |-> 0]
    /\ copiesLeft = MaxCopies
    /\ launchesLeft = 0
    /\ hp = [pc |-> "off", queried |-> NoPolicy]

NextClip == CbCall(Main) \/ CopyToClipboard(Main) \/ CbDone(Main)

SpecClip == InitClip /\ [][NextClip]_vars

\* the foreground thread launches files, links and folders; every failed
\* launch leaves a detached recovery thread behind
InitShell ==
    /\ InitCommon
    /\ m_ExeLocation = Empty
    /\ probe = NoProbe
    /\ callsLeft = [t \in Threads |-> 0]
    /\ copiesLeft = 0
    /\ launchesLeft = MaxTasks
    /\ hp = [pc |-> "off", queried |-> NoPolicy]

NextShell ==
    \/ EditFile
    \/ OpenLink
    \/ OpenFolder
    \/ ShReturn
    \/ \E i \in 1 .. MaxTasks : RecoveryThread(i)

SpecShell == InitShell /\ [][NextShell]_vars

\* the foreground thread probes one path with IsDirectory and FileExists and
\* one file with GetFileVersion
InitProbe ==
    /\ InitCommon
    /\ m_ExeLocation = Empty
    /\ \E f \in PathStates : probe = [NoProbe EXCEPT !.fs = f]
    /\ callsLeft = [t \in Threads |-> 0]
    /\ copiesLeft = 0
    /\ launchesLeft = 0
    /\ hp = [pc |-> "off", queried |-> NoPolicy]

NextProbe == IsDirectory \/ FileExists \/ VersionProbe

SpecProbe == InitProbe /\ [][NextProbe]_vars

----------------------------------------------------------------------------
(* HardenProcess: failure isolation and severities *)

\* the six policies in the order of the source
HpOrder == <<"ASLR", "DynamicCode", "StrictHandleCheck", "ExtensionPointDisable",
             "Signature", "ImageLoad">>

\* how many of the six steps lie behind the position pc
StepsBehind(pc) ==
    CASE pc = "aslr"      -> 0
      [] pc = "code"      -> 1
      [] pc = "handle"    -> 2
      [] pc = "extension" -> 3
      [] pc = "signature" -> 4
      [] pc \in {"load", "volume"} -> 5
      [] OTHER            -> 6

InstallCount(q) ==
    Cardinality({i \in 1 .. Len(osCalls) :
                    osCalls[i].call = "Set" /\ osCalls[i].policy = q})

FailedCalls == {i \in 1 .. Len(osCalls) : ~osCalls[i].ok}

ExeQueryFailed ==
    \/ exe[Main].queried = "failed"
    \/ \E i \in 1 .. Len(exeLog[Main]) : exeLog[Main][i].queried = "failed"

\* the only OS call that has failed so far is the install of policy p
OnlyInstallFailed(p) ==
    /\ ~ExeQueryFailed
    /\ Cardinality(FailedCalls) = 1
    /\ \A i \in FailedCalls : osCalls[i].call = "Set" /\ osCalls[i].policy = p

\* C1: whichever single policy install fails, no step is skipped: every
\* install whose step lies behind the current position has been executed
\* exactly once, so that when HardenProcess has returned all six have been
\* executed; no report above Log severity reaches the sink.
C1_FailureIsolation ==
    \A k \in 1 .. Len(HpOrder) :
        OnlyInstallFailed(HpOrder[k]) =>
            /\ \A j \in 1 .. Len(HpOrder) :
                  InstallCount(HpOrder[j]) = (IF j <= StepsBehind(hp.pc) THEN 1 ELSE 0)
            /\ Len(reports) = 1
            /\ reports[1].level = "Log"

\* HardenProcess has returned, the ASLR install was the one failure, and the
\* other five installs were executed
C1_Witness ==
    /\ hp.pc = "done"
    /\ OnlyInstallFailed("ASLR")
    /\ \A j \in 2 .. Len(HpOrder) : InstallCount(HpOrder[j]) = 1

\* C3: every report made during HardenProcess is at Log severity.
C3_OnlyLogSeverity ==
    \A i \in 1 .. Len(reports) : reports[i].level = "Log"

----------------------------------------------------------------------------
(* GetExeLocation: the cache under concurrent and repeated calls *)

\* C9: the cache is written at most once and no thread reads or writes it
\* while another thread is inside its assignment.
C9_FirstAccessProtected == exeWrites <= 1 /\ ~raceSeen

\* C10 as stated: any two calls of a thread return the identical string.
C10_TwiceIdentical ==
    \A t \in Threads : \A i, j \in 1 .. Len(exeLog[t]) :
        exeLog[t][i].ret = exeLog[t][j].ret

\* C10, amended: once a call of the thread has returned a non-empty string,
\* every later call returns the identical string.
C10_IdenticalOnceResolved ==
    \A t \in Threads : \A i, j \in 1 .. Len(exeLog[t]) :
        (i < j /\ exeLog[t][i].ret # Empty) => exeLog[t][j].ret = exeLog[t][i].ret

\* two calls have returned the same non-empty path, the second without a query
C10_Witness ==
    /\ Len(exeLog[Main]) >= 2
    /\ exeLog[Main][1].ret # Empty
    /\ exeLog[Main][1].queried = "ok"
    /\ exeLog[Main][2].queried = "no"
    /\ exeLog[Main][2].ret = exeLog[Main][1].ret

----------------------------------------------------------------------------
(* CopyToClipboard: results, memory ownership, the scoped lock *)

\* the steps of a call in the order of the source
StepOrder == <<"open", "empty", "alloc", "lock", "copy", "set">>

Returned(t) == cb[t].pc \in {"ret", "done"}

\* the reports thread t has made since its current call began
ReportsOfCall(t) ==
    {i \in cb[t].base + 1 .. Len(reports) : reports[i].by = t}

LastStep(t) == cb[t].steps[Len(cb[t].steps)]

\* C2: when the block was allocated and locked and SetClipboardData failed,
\* the block has been freed by the time CopyToClipboard has returned.
C2_FreedOnFailedHandOff ==
    \A t \in Threads :
        (cb[t].pc = "done" /\ LastStep(t) = Step("set", FALSE)) =>
            blk[t].state = "freed"

\* C6: the steps run in the order of the source and none runs after a failed
\* one; the call returns true only if all of them succeeded, and then it made
\* no report; a call that returns false failed at its last step and made
\* exactly one report, at Error severity.
C6_TrueOnlyIfAllSucceed ==
    \A t \in Threads :
        LET st == cb[t].steps IN
        /\ Len(st) <= Len(StepOrder)
        /\ \A i \in 1 .. Len(st) :
              /\ st[i].step = StepOrder[i]
              /\ i < Len(st) => st[i].ok
        /\ Returned(t) =>
              /\ cb[t].result \in BOOLEAN
              /\ cb[t].result = TRUE =>
                    /\ Len(st) = Len(StepOrder)
                    /\ \A i \in 1 .. Len(st) : st[i].ok
                    /\ ReportsOfCall(t) = {}
              /\ cb[t].result = FALSE =>
                    /\ ~LastStep(t).ok
                    /\ Cardinality(ReportsOfCall(t)) = 1
                    /\ \A i \in ReportsOfCall(t) : reports[i].level = "Error"

\* a call has returned false after its allocation failed: three steps ran
C6_Witness ==
    /\ cb[Main].pc = "done"
    /\ cb[Main].result = FALSE
    /\ cb[Main].steps = <<Step("open", TRUE), Step("empty", TRUE), Step("alloc", FALSE)>>
    /\ Cardinality(ReportsOfCall(Main)) = 1

\* C7: the block is not locked when it is handed to SetClipboardData and not
\* locked when CopyToClipboard returns, whether the lock was acquired or not.
C7_LockReleased ==
    \A t \in Threads :
        cb[t].pc \in {"set", "ret", "done"} => blk[t].locks = 0

\* the lock was acquired, the text copied, and the block is about to be handed
\* to SetClipboardData unlocked
C7_Witness ==
    /\ cb[Main].pc = "set"
    /\ Step("lock", TRUE) \in {cb[Main].steps[i] : i \in 1 .. Len(cb[Main].steps)}
    /\ blk[Main].state = "allocated"
    /\ blk[Main].locks = 0

\* C8: when CopyToClipboard(text) returns true the clipboard holds
\* text.length() + 1 characters: the text, then the null terminator.
C8_RoundTrip ==
    \A t \in Threads :
        (cb[t].pc = "ret" /\ cb[t].result = TRUE) =>
            /\ Len(clip.data) = Len(cb[t].text) + 1
            /\ SubSeq(clip.data, 1, Len(cb[t].text)) = cb[t].text
            /\ clip.data[Len(clip.data)] = NUL

----------------------------------------------------------------------------
(* Shell launchers and their recovery threads *)

Created == 1 .. nTasks

FailedLaunches == {k \in 1 .. Len(launchLog) : ~launchLog[k].ok}

\* C4: a launcher that has made its shell invocation can always take its
\* return step: nothing a recovery thread or the user does or fails to do is
\* a condition of it.
C4_ReturnNeverWaits == (sh.pc = "launched") => ENABLED ShReturn

\* the launcher whose invocation failed has returned while the prompt of the
\* recovery thread it created is still open and unanswered
C4_Witness ==
    /\ sh.pc = "idle"
    /\ nTasks >= 1
    /\ tasks[1].state = "prompt"
    /\ tasks[1].answer = "none"

\* C5: the recovery threads correspond one to one to the failed launches; a
\* thread shows the target and the error code of the launch that created it,
\* and has called CopyToClipboard once, with that target, exactly if its
\* prompt was answered Yes, and otherwise not at all.
C5_RecoveryPerFailure ==
    /\ nTasks = Cardinality(FailedLaunches)
    /\ {tasks[i].launch : i \in Created} = FailedLaunches
    /\ \A i \in 1 .. MaxTasks : (tasks[i].state # "none") <=> (i \in Created)
    /\ \A i \in Created :
          LET own == launchLog[tasks[i].launch] IN
          /\ tasks[i].state \in {"prompt", "copying", "done"} =>
                tasks[i].shown = [target |-> own.target, err |-> own.err]
          /\ tasks[i].copies =
                (IF tasks[i].answer = "IDYES" THEN <<own.target>> ELSE << >>)
          /\ tasks[i].state = "copying" =>
                cb[i].text = own.target /\ cb[i].caller = "task"
          /\ tasks[i].state = "done" => tasks[i].answer \in Answers
          /\ tasks[i].state \in {"spawned", "prompt"} => cb[i].pc = "idle"

\* two launches failed with different targets and error codes; the first
\* recovery thread was answered Yes and copied its own target, the second was
\* answered No and copied nothing
C5_Witness ==
    /\ nTasks = 2
    /\ launchLog[1].err # launchLog[2].err
    /\ launchLog[1].target # launchLog[2].target
    /\ tasks[1].answer = "IDYES" /\ tasks[1].state = "done"
    /\ tasks[1].copies = <<launchLog[1].target>>
    /\ tasks[2].answer = "IDNO" /\ tasks[2].state = "done"
    /\ tasks[2].copies = << >>

----------------------------------------------------------------------------
(* GetExeLocation: the lifecycle of the cache *)

\* some OS query of the executable path has succeeded
QuerySucceeded ==
    \E t \in Threads :
        \/ exe[t].queried = "ok"
        \/ \E i \in 1 .. Len(exeLog[t]) : exeLog[t][i].queried = "ok"

\* the calls whose query failed and that are past line 57
FailedPastReport ==
    Cardinality({t \in Threads : exe[t].queried = "failed" /\ exe[t].pc = "ret"})
    + Cardinality({<<t, i>> \in Threads \X (1 .. MaxExeCalls) :
                      i <= Len(exeLog[t]) /\ exeLog[t][i].queried = "failed"})

FatalReports == {i \in 1 .. Len(reports) : reports[i].level = "Fatal"}

\* a call whose query failed has made its report at Fatal severity, finds the
\* cache empty when it returns and returns the empty string
FailureHandled ==
    /\ Cardinality(FatalReports) = FailedPastReport
    /\ \A i \in 1 .. Len(reports) :
          reports[i].msg = "Failed to determine executable location!" =>
              reports[i].level = "Fatal"
    /\ \A t \in Threads :
          /\ (exe[t].queried = "failed" /\ exe[t].pc = "ret") => m_ExeLocation = Empty
          /\ \A i \in 1 .. Len(exeLog[t]) :
                exeLog[t][i].queried = "failed" => exeLog[t][i].ret = Empty

\* C11: once an OS query has succeeded no step queries the OS again; the
\* cache changes only from empty to the path a successful query returned, so
\* once it holds a path it is never changed and never cleared; a call whose
\* query fails reports at Fatal severity, leaves the cache empty and returns
\* the empty string.
C11_CacheLifecycle ==
    [][ /\ QuerySucceeded => exeQueries' = exeQueries
        /\ m_ExeLocation # Empty => m_ExeLocation' = m_ExeLocation
        /\ m_ExeLocation' # m_ExeLocation =>
               \E t \in Threads : exe[t].queried = "ok" /\ m_ExeLocation' = exe[t].loc
        /\ FailureHandled' ]_vars

\* a first call failed and returned the empty string, a second call queried
\* and cached the path, a third returned it without a query
C11_Witness ==
    /\ Len(exeLog[Main]) >= 3
    /\ exeLog[Main][1] = [queried |-> "failed", ret |-> Empty]
    /\ exeLog[Main][2].queried = "ok"
    /\ exeLog[Main][3] = [queried |-> "no", ret |-> m_ExeLocation]
    /\ m_ExeLocation \in ExePaths
    /\ exeQueries = 2
    /\ Cardinality(FatalReports) = 1

----------------------------------------------------------------------------
(* HardenProcess: the order of the steps *)

\* the mitigation-policy calls made so far, in order
PolicyCalls == SelectSeq(osCalls, LAMBDA c : c.call \in {"Get", "Set"})

\* the installs attempted so far, in order
Installs == SelectSeq(osCalls, LAMBDA c : c.call = "Set")

\* the position of policy p in the order of the source
OrderOf(p) == CHOOSE k \in 1 .. Len(HpOrder) : HpOrder[k] = p

\* C12: the installs are attempted in the order ASLR, dynamic code, strict
\* handle checks, extension points, image signature, image load, none of
\* them twice and none before its step is reached; when HardenProcess
\* returns, the image load install is the last policy call it has made.
C12_FixedOrder ==
    /\ \A i \in 1 .. Len(Installs) : Installs[i].policy \in
                                          {HpOrder[k] : k \in 1 .. Len(HpOrder)}
    /\ \A i, j \in 1 .. Len(Installs) :
          i < j => OrderOf(Installs[i].policy) < OrderOf(Installs[j].policy)
    /\ \A i \in 1 .. Len(Installs) :
          OrderOf(Installs[i].policy) <= StepsBehind(hp.pc)
    /\ hp.pc \in {"return", "done"} =>
          /\ PolicyCalls # << >>
          /\ PolicyCalls[Len(PolicyCalls)].call = "Set"
          /\ PolicyCalls[Len(PolicyCalls)].policy = "ImageLoad"

\* HardenProcess has returned after attempting all six installs, in order
C12_Witness ==
    /\ hp.pc = "done"
    /\ [i \in 1 .. Len(Installs) |-> Installs[i].policy] = HpOrder
    /\ Len(PolicyCalls) = Len(HpOrder) + 1

----------------------------------------------------------------------------
(* HardenProcess: the image load policy *)

VolumeCalls == {i \in 1 .. Len(osCalls) : osCalls[i].call = "GetVolumePathName"}

VolumeReports ==
    {i \in 1 .. Len(reports) : reports[i].msg = "Unable to get volume path name."}

\* C13: the volume path is resolved at most once, and the image load policy
\* is installed right after it whether it was resolved or not; the policy
\* installed has NoLowMandatoryLabelImages and PreferSystem32Images set, and
\* NoRemoteImages set exactly if the volume path was resolved and the drive
\* is not a remote one; a failed resolution is reported once, at Log
\* severity, and a successful one is not reported.
C13_ImageLoadPolicy ==
    /\ Cardinality(VolumeCalls) <= 1
    /\ InstallCount("ImageLoad") = Cardinality(VolumeCalls)
    /\ \A i \in VolumeCalls :
          /\ i < Len(osCalls)
          /\ osCalls[i + 1].call = "Set"
          /\ osCalls[i + 1].policy = "ImageLoad"
          /\ osCalls[i + 1].value =
                [NoLowMandatoryLabelImages |-> TRUE,
                 PreferSystem32Images |-> TRUE,
                 NoRemoteImages |-> (osCalls[i].ok /\ osCalls[i].drive # "DRIVE_REMOTE")]
    /\ Cardinality(VolumeReports) =
          Cardinality({i \in VolumeCalls : ~osCalls[i].ok})
    /\ \A i \in VolumeReports : reports[i].level = "Log"

\* the volume resolution failed and was reported, and the image load policy
\* was installed, successfully, with NoRemoteImages unset
C13_Witness ==
    /\ hp.pc = "done"
    /\ Cardinality(VolumeReports) = 1
    /\ \E i \in VolumeCalls :
          /\ ~osCalls[i].ok
          /\ osCalls[i + 1].ok
          /\ osCalls[i + 1].policy = "ImageLoad"
          /\ ~osCalls[i + 1].value.NoRemoteImages
          /\ osCalls[i + 1].value.PreferSystem32Images

----------------------------------------------------------------------------
(* HardenProcess: the ASLR step *)

AslrQueryFailed ==
    \E i \in 1 .. Len(osCalls) : osCalls[i] = GetCall("ASLR", FALSE)

\* the reports of the ASLR step (lines 242 and 247)
AslrReports ==
    {i \in 1 .. Len(reports) :
        reports[i].msg \in {"Couldn't disallow stripped images.",
                            "Couldn't get current ASLR policy."}}

\* C19: an ASLR install follows a successful query and installs the policy
\* queried with EnableForceRelocateImages and DisallowStrippedImages true and
\* the other fields as they were queried; when the query failed no ASLR
\* install is made, the step makes exactly one report, at Log severity, and
\* each of the five later installs is made once its step is reached.
C19_AslrFrame ==
    /\ \A i \in 1 .. Len(osCalls) :
          (osCalls[i].call = "Set" /\ osCalls[i].policy = "ASLR") =>
              /\ i > 1
              /\ osCalls[i - 1] = GetCall("ASLR", TRUE)
              /\ DOMAIN osCalls[i].value = DOMAIN hp.queried
              /\ osCalls[i].value.EnableForceRelocateImages
              /\ osCalls[i].value.DisallowStrippedImages
              /\ \A f \in DOMAIN hp.queried \ {"EnableForceRelocateImages",
                                                "DisallowStrippedImages"} :
                    osCalls[i].value[f] = hp.queried[f]
    /\ AslrQueryFailed =>
          /\ InstallCount("ASLR") = 0
          /\ Cardinality(AslrReports) = 1
          /\ \A i \in AslrReports :
                /\ reports[i].level = "Log"
                /\ reports[i].msg = "Couldn't get current ASLR policy."
          /\ \A j \in 2 .. Len(HpOrder) :
                InstallCount(HpOrder[j]) = (IF j <= StepsBehind(hp.pc) THEN 1 ELSE 0)

\* the policy queried had high-entropy ASLR on and forced relocation off; the
\* policy installed has both on, and bottom-up randomization as queried
C19_Witness ==
    /\ hp.pc = "done"
    /\ hp.queried.EnableHighEntropy
    /\ ~hp.queried.EnableForceRelocateImages
    /\ ~hp.queried.EnableBottomUpRandomization
    /\ \E i \in 1 .. Len(osCalls) :
          /\ osCalls[i].call = "Set" /\ osCalls[i].policy = "ASLR"
          /\ osCalls[i].value.EnableHighEntropy
          /\ osCalls[i].value.EnableForceRelocateImages
          /\ ~osCalls[i].value.EnableBottomUpRandomization

----------------------------------------------------------------------------
(* GetFileVersion: the result on the failure paths *)

\* C14: a GetFileVersion call that fails at any of its three steps returns
\* the empty string with an error code other than S_OK, whatever the last
\* error is; a call that returns holds a value (S_OK) exactly if no step
\* failed.
C14_FailureNeverOk ==
    (ver.called /\ ver.result.returned) =>
        /\ FailingStep(ver.in) # "none" =>
              /\ ver.result.value = Empty
              /\ ver.result.hr # S_OK
        /\ (ver.result.hr = S_OK) <=> (FailingStep(ver.in) = "none")

----------------------------------------------------------------------------
(* IsDirectory and FileExists *)

\* the reports of the two probes (lines 98 and 116)
DirReports ==
    {i \in 1 .. Len(reports) : reports[i].msg = "Failed to check if directory exists."}
FileReports ==
    {i \in 1 .. Len(reports) : reports[i].msg = "Failed to check if file exists."}

\* the last error is one of the two that mean the path does not exist
NotFound == probe.fs.error \in {ERROR_FILE_NOT_FOUND, ERROR_PATH_NOT_FOUND}

\* C15: when the attribute query fails both probes return false; a probe
\* that was called has made one report if the last error is neither
\* file-not-found nor path-not-found and none if it is one of them,
\* IsDirectory at Debug severity and FileExists at Log severity; so probing a
\* path that does not exist makes no report at all.
C15_ProbeFailure ==
    ~probe.fs.ok =>
        /\ ~probe.isDir.ret
        /\ ~probe.exists.ret
        /\ Cardinality(DirReports) =
              (IF probe.isDir.called /\ ~NotFound THEN 1 ELSE 0)
        /\ Cardinality(FileReports) =
              (IF probe.exists.called /\ ~NotFound THEN 1 ELSE 0)
        /\ \A i \in DirReports : reports[i].level = "Debug"
        /\ \A i \in FileReports : reports[i].level = "Log"
        /\ Len(reports) = Cardinality(DirReports) + Cardinality(FileReports)
        /\ NotFound => reports = << >>

\* the query failed with access denied; both probes returned false, the first
\* with a Debug report and the second with a Log report
C15_Witness ==
    /\ ~probe.fs.ok
    /\ probe.fs.error = 5
    /\ probe.isDir = [called |-> TRUE, ret |-> FALSE]
    /\ probe.exists = [called |-> TRUE, ret |-> FALSE]
    /\ Len(reports) = 2
    /\ {reports[i].level : i \in 1 .. Len(reports)} = {"Debug", "Log"}

\* the attribute word of the probed path has the directory flag
IsDirectoryWord == (probe.fs.attributes \div FILE_ATTRIBUTE_DIRECTORY) % 2 = 1

\* C16: when the attribute query succeeds, IsDirectory returns true exactly
\* if the attribute word has the directory flag and FileExists returns true
\* exactly if it has not, so exactly one of the two is true; in no state of
\* the path have both returned true.
C16_ExactlyOne ==
    /\ ~(probe.isDir.ret /\ probe.exists.ret)
    /\ probe.fs.ok =>
          /\ probe.isDir.called => (probe.isDir.ret <=> IsDirectoryWord)
          /\ probe.exists.called => (probe.exists.ret <=> ~IsDirectoryWord)
          /\ (probe.isDir.called /\ probe.exists.called) =>
                (probe.isDir.ret <=> ~probe.exists.ret)
          /\ reports = << >>

\* the path is a directory reparse point (0x410): IsDirectory has returned
\* true and FileExists false
C16_Witness ==
    /\ probe.fs.ok
    /\ probe.fs.attributes = 1040
    /\ probe.isDir = [called |-> TRUE, ret |-> TRUE]
    /\ probe.exists = [called |-> TRUE, ret |-> FALSE]

----------------------------------------------------------------------------
(* OpenLink: the class of the shell invocation *)

LinkLaunches == {k \in 1 .. Len(launchLog) : launchLog[k].kind = "link"}

\* the first n characters of a string
Prefix(str, n) == SubSeq(str, 1, IF n <= Len(str) THEN n ELSE Len(str))

\* C17: a link is launched with class "https" if its fifth character is "s"
\* and with class "http" otherwise; so http://example.com is launched with
\* "http" and https://example.com with "https".
C17_LinkClass ==
    \A k \in LinkLaunches :
        LET url == launchLog[k].target IN
        /\ launchLog[k].class =
              (IF Len(url) >= 5 /\ url[5] = "s" THEN "https" ELSE "http")
        /\ Prefix(url, 7) = <<"h", "t", "t", "p", ":", "/", "/">> =>
              launchLog[k].class = "http"
        /\ Prefix(url, 8) = <<"h", "t", "t", "p", "s", ":", "/", "/">> =>
              launchLog[k].class = "https"

\* http://example.com was launched and then https://example.com, the first
\* with class "http" and the second with class "https"
C17_Witness ==
    /\ Len(launchLog) = 2
    /\ LinkLaunches = {1, 2}
    /\ Len(launchLog[1].target) = 18 /\ launchLog[1].target[5] = ":"
    /\ launchLog[1].class = "http"
    /\ Len(launchLog[2].target) = 19 /\ launchLog[2].target[5] = "s"
    /\ launchLog[2].class = "https"

----------------------------------------------------------------------------
(* CopyToClipboard: who frees the block *)

\* thread t is in a call, or has returned from one, that made some step
Stepped(t) == cb[t].pc # "idle" /\ cb[t].steps # << >>

\* C18: the block of a call is freed at most once and only while the call
\* owns it: after a successful SetClipboardData the clipboard owns the block
\* and the call has not freed it, also when it has returned; a call that
\* returns because the lock failed returns false with the block freed.
C18_OwnedBlockFreedOnce ==
    \A t \in Threads :
        /\ blk[t].frees <= 1
        /\ (blk[t].frees = 1) <=> (blk[t].state = "freed")
        /\ (Stepped(t) /\ LastStep(t) = Step("set", TRUE)) =>
              /\ blk[t].state = "clipboard"
              /\ blk[t].frees = 0
        /\ (Stepped(t) /\ cb[t].pc = "done" /\ LastStep(t) = Step("lock", FALSE)) =>
              /\ cb[t].result = FALSE
              /\ blk[t].state = "freed"
              /\ blk[t].frees = 1

\* a call whose allocation succeeded and whose lock failed has returned
\* false, and its block is freed
C18_Witness ==
    /\ cb[Main].pc = "done"
    /\ cb[Main].steps = <<Step("open", TRUE), Step("empty", TRUE),
                          Step("alloc", TRUE), Step("lock", FALSE)>>
    /\ cb[Main].result = FALSE
    /\ blk[Main].state = "freed"

----------------------------------------------------------------------------
(* CopyToClipboard: concurrent callers *)

\* the positions at which a call has the clipboard open and works on it
InCycle == {"empty", "alloc", "lock", "copy", "set"}

\* no call is in progress
Quiescent == \A t \in Threads : cb[t].pc \in {"idle", "done"}

\* the calls that have returned true
Succeeded == {t \in Threads : cb[t].pc = "done" /\ cb[t].result = TRUE}

\* the clipboard holds the block call t handed over, with t's complete text
HoldsTextOf(t) ==
    /\ blk[t].state = "clipboard"
    /\ clip.data = blk[t].mem
    /\ Len(clip.data) = Len(cb[t].text) + 1
    /\ SubSeq(clip.data, 1, Len(cb[t].text)) = cb[t].text

\* a call that has the clipboard open is the only holder, and a call that has
\* returned has closed it
OpenClosePaired ==
    \A t \in Threads :
        /\ cb[t].pc \in InCycle => clip.holder = t
        /\ cb[t].pc \in {"idle", "open", "done"} => clip.holder # t
        /\ clip.holder = t => cb[t].opened

\* C20 as stated: open and close are paired, no caller empties or sets the
\* clipboard while another holds it, and when no call is in progress and
\* some call has succeeded the clipboard holds the complete text of one
\* successful call.
C20_TextOfOneCall ==
    /\ OpenClosePaired
    /\ (Quiescent /\ Succeeded # {}) => \E t \in Succeeded : HoldsTextOf(t)

\* C20, amended: open and close are paired, no caller empties or sets the
\* clipboard while another holds it, and the clipboard holds what it held
\* before the calls, or nothing (a call has emptied it and has not set it),
\* or the block of one call in which SetClipboardData succeeded, with that
\* call's complete text: never characters of two calls.
C20_OneCallOrEmpty ==
    /\ OpenClosePaired
    /\ \/ clip.data = OldData
       \/ clip.data = << >>
       \/ \E t \in Threads :
             /\ Stepped(t) /\ LastStep(t) = Step("set", TRUE)
             /\ HoldsTextOf(t)

\* two recovery threads have copied different texts, both calls have
\* returned true, the clipboard is closed and holds the text of the second
C20_Witness ==
    /\ Succeeded = {1, 2}
    /\ cb[1].text # cb[2].text
    /\ clip.holder = NoOne
    /\ HoldsTextOf(2)
    /\ ~HoldsTextOf(1)

====
